---- MODULE Spec2Model ----
(***************************************************************************)
(* Frame lifecycle of meshterial's VkRenderer (vk_renderer.rs).            *)
(*                                                                         *)
(* The renderer struct is the record variable vkr, one field per field of  *)
(* the Rust struct that takes part in the frame lifecycle.  Every public   *)
(* method is an operator from the struct (and the outcome of the Vulkan    *)
(* calls it makes) to the struct after the call, its return value and the  *)
(* panic message if one of its expect()/panic!() calls fired.  A panic     *)
(* leaves the struct as the code had mutated it up to that point and ends  *)
(* the run.                                                                *)
(*                                                                         *)
(* GPU futures are modelled by what they order: a future is the set of     *)
(* atoms (image acquisitions, submitted frames, present requests, texture  *)
(* uploads) that have to be finished before it is.  join is union,         *)
(* now() is the empty set.                                                 *)
(***************************************************************************)
EXTENDS Integers, Sequences, FiniteSets, TLC

\* ---------------------------------------------------------------- bounds
NumImages   == 2      \* images in the swapchain (caps.min_image_count)
MaxAcquires == 2      \* successful acquire_next_image calls in one run
MaxGen      == 1      \* swapchain recreations in one run
MaxCmds     == 1      \* commands in one pending command buffer

\* The sizes the window takes and the texture paths the caller asks for.
WindowSize == "800x600"
Dims == {WindowSize, "1024x768"}
Keys == {"a.png"}

\* ---------------------------------------------------------------- Option
None      == << >>
Some(x)   == << x >>
Unwrap(o) == o[1]

\* ------------------------------------------------------------ GPU futures
AcquireAtom(n) == << "acquire", n >>
FrameAtom(n)   == << "frame", n >>
PresentAtom(n) == << "present", n >>
UploadAtom(k)  == << "upload", k >>

\* vulkano::sync::now(device): a future that is already finished.
now == [deps |-> {}]

\* GpuFuture::join: finished when both are.
join(a, b) == [deps |-> a.deps \cup b.deps]

VARIABLES
  vkr,        \* the VkRenderer struct
  acquired,   \* number of images acquired from the swapchain so far
  in_flight,  \* the frames and uploads the GPU has not finished yet
  last_op,    \* the method called last
  ret,        \* what it returned
  flushed,    \* the chain it handed to then_signal_fence_and_flush, if any
  panic,      \* "" or the message of the panic that ended the run
  uploads,    \* number of texture uploads started so far
  uploaded,   \* the upload the last call started, if any
  pipelines,  \* the pipeline objects the caller holds, in construction order
  desc_sets,  \* every descriptor set build attempted so far, with its outcome
  fps,        \* the FPSCounter struct
  fps_deltas  \* what each FPSCounter::next_frame call returned, in call order

vars == << vkr, acquired, in_flight, last_op, ret, flushed, panic, uploads, uploaded,
          pipelines, desc_sets, fps, fps_deltas >>

\* ------------------------------------------------------------------- new
\* VkRenderer::new: the swapchain is created at the surface's extent, the
\* viewport from the same dimensions; no framebuffers, no future, no slot.
NewImages(gen) == [i \in 1..NumImages |-> [gen |-> gen, index |-> i - 1]]

new(extent) ==
  [ dimensions             |-> extent,
    swapchain              |-> [gen |-> 0, dims |-> extent],
    images                 |-> NewImages(0),
    framebuffers           |-> None,
    recreate_swapchain     |-> FALSE,
    previous_frame_end     |-> None,
    image_num              |-> None,
    acquire_future         |-> None,
    dynamic_state          |-> extent,
    command_buffer_builder |-> None,
    texture_store          |-> << >> ]

\* ------------------------------------------------------------ FPSCounter
BufferLen == 3         \* length of FPSCounter::buffer (600 in the source)
MaxFrames == 7         \* FPSCounter::next_frame calls in one run

\* The time between two next_frame calls, in ticks.
Deltas == {1, 2}

\* buffer is indexed from 1 here, index counts from 0 as in the source.
FPSCounter_new == [buffer |-> [i \in 1..BufferLen |-> 0], index |-> 0]

Init ==
  /\ vkr = new(WindowSize)
  /\ acquired = 0
  /\ in_flight = {}
  /\ last_op = "new"
  /\ ret = << "()" >>
  /\ flushed = None
  /\ panic = ""
  /\ uploads = 0
  /\ uploaded = None
  /\ pipelines = << >>
  /\ desc_sets = << >>
  /\ fps = FPSCounter_new
  /\ fps_deltas = << >>

Alive == panic = ""

\* ---------------------------------------------------- recreate_swapchain
\* extent is the surface's current extent, rc the outcome of
\* Swapchain::recreate_with_dimension.  The dimensions and the viewport are
\* written before the swapchain is recreated.
RecreateSwapchain_KeepsFramebuffers(self, extent, rc) ==
  LET s1 == [self EXCEPT !.dimensions = extent,
                         !.dynamic_state = extent]
  IN  IF rc = "ok"
      THEN [s1 EXCEPT !.swapchain = [gen |-> self.swapchain.gen + 1, dims |-> s1.dimensions],
                      !.images = NewImages(self.swapchain.gen + 1)]
      ELSE s1

RecreateSwapchain(self, extent, rc) ==
  LET s1 == [self EXCEPT !.dimensions = extent,
                         !.dynamic_state = extent]
  IN  IF rc = "ok"
      THEN [s1 EXCEPT !.swapchain = [gen |-> self.swapchain.gen + 1, dims |-> s1.dimensions],
                      !.images = NewImages(self.swapchain.gen + 1),
                      !.framebuffers = None]
      ELSE s1

\* -------------------------------------------------- with_command_builder
\* AutoCommandBufferBuilder: the recorded commands and whether a render
\* pass is open.
NewBuilder == [cmds |-> << >>, inpass |-> FALSE]

Cmd(kind, fb) == [kind |-> kind, fb |-> fb]

\* Whether the builder accepts the command: copies are refused inside a
\* render pass, draws and end_render_pass outside of one, begin_render_pass
\* inside of one.
Accepts(b, kind) ==
  CASE kind = "identity"          -> TRUE
    [] kind = "copy_buffer"       -> ~b.inpass
    [] kind = "begin_render_pass" -> ~b.inpass
    [] kind = "draw"              -> b.inpass
    [] kind = "end_render_pass"   -> b.inpass

Record(b, c) ==
  CASE c.kind = "identity"          -> b
    [] c.kind = "begin_render_pass" -> [cmds |-> Append(b.cmds, c), inpass |-> TRUE]
    [] c.kind = "end_render_pass"   -> [cmds |-> Append(b.cmds, c), inpass |-> FALSE]
    [] OTHER                        -> [b EXCEPT !.cmds = Append(b.cmds, c)]

\* The builder is taken out of the field (or created), handed to the
\* closure and stored back.  A closure whose command is refused panics on
\* its expect(), with the builder already taken.
with_command_builder_FreshEachTime(self, c) ==
  LET b == NewBuilder
  IN  IF Accepts(b, c.kind)
      THEN [self  |-> [self EXCEPT !.command_buffer_builder = Some(Record(b, c))],
            panic |-> ""]
      ELSE [self  |-> [self EXCEPT !.command_buffer_builder = None],
            panic |-> "add_cmds: command refused by the builder"]

with_command_builder(self, c) ==
  LET b == IF self.command_buffer_builder # None
           THEN Unwrap(self.command_buffer_builder)
           ELSE NewBuilder
  IN  IF Accepts(b, c.kind)
      THEN [self  |-> [self EXCEPT !.command_buffer_builder = Some(Record(b, c))],
            panic |-> ""]
      ELSE [self  |-> [self EXCEPT !.command_buffer_builder = None],
            panic |-> "add_cmds: command refused by the builder"]

\* ------------------------------------------------------ start_next_frame
\* One framebuffer per swapchain image, each with a depth buffer of the
\* recorded dimensions.
NewFramebuffers(self) ==
  [i \in 1..Len(self.images) |-> [image |-> self.images[i], depth |-> self.dimensions]]

\* What acquire_next_image hands out: the n-th acquisition of the run, of
\* image idx of swapchain gen.
AcquireFuture(n, gen, idx) == [id |-> n, gen |-> gen, index |-> idx]

Ret_None    == << "None" >>
Ret_Some(b) == << "Some", b >>
Ret_Unit    == << "()" >>
Ret_Panic   == << "panic" >>

Result(self, r, msg) == [self |-> self, ret |-> r, panic |-> msg]

\* start_next_frame with one arm changed.
start_next_frame_KeepsFresh(self, extent, rc, acq, idx, n) ==
  LET \* cleanup_finished() only polls fences; then a missing future is
      \* replaced by now().
      s0 == IF self.previous_frame_end = None
            THEN [self EXCEPT !.previous_frame_end = Some(now)]
            ELSE self
      recreate == s0.recreate_swapchain
      s1 == IF recreate THEN RecreateSwapchain(s0, extent, rc) ELSE s0
      s2 == [s1 EXCEPT !.recreate_swapchain = FALSE]
      resized == s2.framebuffers = None
      s3 == IF resized
            THEN [s2 EXCEPT !.framebuffers = Some(NewFramebuffers(s2))]
            ELSE s2
      s4 == [s3 EXCEPT !.image_num = Some(idx),
                       !.acquire_future = Some(AcquireFuture(n, s3.swapchain.gen, idx))]
      s5 == with_command_builder(s4, Cmd("identity", None)).self
  IN  CASE recreate /\ rc = "unsupported" -> Result(s1, Ret_None, "")
        [] recreate /\ rc = "other"       -> Result(s1, Ret_Panic, "recreate_swapchain failed")
        [] acq = "out_of_date"            ->
             Result(s3, Ret_None, "")
        [] acq = "other"                  -> Result(s3, Ret_Panic, "acquire_next_image failed")
        [] OTHER                          -> Result(s5, Ret_Some(resized), "")

start_next_frame_GivesUp(self, extent, rc, acq, idx, n) ==
  LET \* cleanup_finished() only polls fences; then a missing future is
      \* replaced by now().
      s0 == IF self.previous_frame_end = None
            THEN [self EXCEPT !.previous_frame_end = Some(now)]
            ELSE self
      recreate == s0.recreate_swapchain
      s1 == IF recreate THEN RecreateSwapchain(s0, extent, rc) ELSE s0
      s2 == [s1 EXCEPT !.recreate_swapchain = FALSE]
      resized == s2.framebuffers = None
      s3 == IF resized
            THEN [s2 EXCEPT !.framebuffers = Some(NewFramebuffers(s2))]
            ELSE s2
      s4 == [s3 EXCEPT !.image_num = Some(idx),
                       !.acquire_future = Some(AcquireFuture(n, s3.swapchain.gen, idx))]
      s5 == with_command_builder(s4, Cmd("identity", None)).self
  IN  CASE recreate /\ rc = "unsupported" -> Result(s2, Ret_None, "")
        [] recreate /\ rc = "other"       -> Result(s1, Ret_Panic, "recreate_swapchain failed")
        [] acq = "out_of_date"            ->
             Result([s3 EXCEPT !.recreate_swapchain = TRUE], Ret_None, "")
        [] acq = "other"                  -> Result(s3, Ret_Panic, "acquire_next_image failed")
        [] OTHER                          -> Result(s5, Ret_Some(resized), "")

start_next_frame_SkipsFrame(self, extent, rc, acq, idx, n) ==
  LET \* cleanup_finished() only polls fences; then a missing future is
      \* replaced by now().
      s0 == IF self.previous_frame_end = None
            THEN [self EXCEPT !.previous_frame_end = Some(now)]
            ELSE self
      recreate == s0.recreate_swapchain
      s1 == IF recreate THEN RecreateSwapchain(s0, extent, rc) ELSE s0
      s2 == [s1 EXCEPT !.recreate_swapchain = FALSE]
      resized == s2.framebuffers = None
      s3 == IF resized
            THEN [s2 EXCEPT !.framebuffers = Some(NewFramebuffers(s2))]
            ELSE s2
      s4 == [s3 EXCEPT !.image_num = Some(idx),
                       !.acquire_future = Some(AcquireFuture(n, s3.swapchain.gen, idx))]
      s5 == with_command_builder(s4, Cmd("identity", None)).self
  IN  CASE recreate /\ rc = "unsupported" -> Result(s1, Ret_None, "")
        [] recreate /\ rc = "other"       -> Result(s1, Ret_Panic, "recreate_swapchain failed")
        [] acq = "out_of_date"            ->
             Result([s3 EXCEPT !.recreate_swapchain = TRUE], Ret_None, "")
        [] acq = "other"                  -> Result(s3, Ret_None, "")
        [] OTHER                          -> Result(s5, Ret_Some(resized), "")

start_next_frame_AlwaysResized(self, extent, rc, acq, idx, n) ==
  LET \* cleanup_finished() only polls fences; then a missing future is
      \* replaced by now().
      s0 == IF self.previous_frame_end = None
            THEN [self EXCEPT !.previous_frame_end = Some(now)]
            ELSE self
      recreate == s0.recreate_swapchain
      s1 == IF recreate THEN RecreateSwapchain(s0, extent, rc) ELSE s0
      s2 == [s1 EXCEPT !.recreate_swapchain = FALSE]
      resized == s2.framebuffers = None
      s3 == IF resized
            THEN [s2 EXCEPT !.framebuffers = Some(NewFramebuffers(s2))]
            ELSE s2
      s4 == [s3 EXCEPT !.image_num = Some(idx),
                       !.acquire_future = Some(AcquireFuture(n, s3.swapchain.gen, idx))]
      s5 == with_command_builder(s4, Cmd("identity", None)).self
  IN  CASE recreate /\ rc = "unsupported" -> Result(s1, Ret_None, "")
        [] recreate /\ rc = "other"       -> Result(s1, Ret_Panic, "recreate_swapchain failed")
        [] acq = "out_of_date"            ->
             Result([s3 EXCEPT !.recreate_swapchain = TRUE], Ret_None, "")
        [] acq = "other"                  -> Result(s3, Ret_Panic, "acquire_next_image failed")
        [] OTHER                          -> Result(s5, Ret_Some(TRUE), "")

\* rc: outcome of the recreation ("ok", "unsupported", "other"), acq: outcome
\* of acquire_next_image ("ok", "out_of_date", "other"), idx: the image it
\* returns, n: the number of this acquisition.
start_next_frame_AcquiresAnyway(self, extent, rc, acq, idx, n) ==
  LET \* cleanup_finished() only polls fences; then a missing future is
      \* replaced by now().
      s0 == IF self.previous_frame_end = None
            THEN [self EXCEPT !.previous_frame_end = Some(now)]
            ELSE self
      recreate == s0.recreate_swapchain
      s1 == IF recreate THEN RecreateSwapchain(s0, extent, rc) ELSE s0
      s2 == [s1 EXCEPT !.recreate_swapchain = FALSE]
      resized == s2.framebuffers = None
      s3 == IF resized
            THEN [s2 EXCEPT !.framebuffers = Some(NewFramebuffers(s2))]
            ELSE s2
      s4 == [s3 EXCEPT !.image_num = Some(idx),
                       !.acquire_future = Some(AcquireFuture(n, s3.swapchain.gen, idx))]
      s5 == with_command_builder(s4, Cmd("identity", None)).self
  IN  CASE recreate /\ rc = "other"       -> Result(s1, Ret_Panic, "recreate_swapchain failed")
        [] acq = "out_of_date"            ->
             Result([s3 EXCEPT !.recreate_swapchain = TRUE], Ret_None, "")
        [] acq = "other"                  -> Result(s3, Ret_Panic, "acquire_next_image failed")
        [] OTHER                          -> Result(s5, Ret_Some(resized), "")

start_next_frame_FreshBuilder(self, extent, rc, acq, idx, n) ==
  LET \* cleanup_finished() only polls fences; then a missing future is
      \* replaced by now().
      s0 == IF self.previous_frame_end = None
            THEN [self EXCEPT !.previous_frame_end = Some(now)]
            ELSE self
      recreate == s0.recreate_swapchain
      s1 == IF recreate THEN RecreateSwapchain(s0, extent, rc) ELSE s0
      s2 == [s1 EXCEPT !.recreate_swapchain = FALSE]
      resized == s2.framebuffers = None
      s3 == IF resized
            THEN [s2 EXCEPT !.framebuffers = Some(NewFramebuffers(s2))]
            ELSE s2
      s4 == [s3 EXCEPT !.image_num = Some(idx),
                       !.acquire_future = Some(AcquireFuture(n, s3.swapchain.gen, idx))]
      s5 == [s4 EXCEPT !.command_buffer_builder = Some(NewBuilder)]
  IN  CASE recreate /\ rc = "unsupported" -> Result(s1, Ret_None, "")
        [] recreate /\ rc = "other"       -> Result(s1, Ret_Panic, "recreate_swapchain failed")
        [] acq = "out_of_date"            ->
             Result([s3 EXCEPT !.recreate_swapchain = TRUE], Ret_None, "")
        [] acq = "other"                  -> Result(s3, Ret_Panic, "acquire_next_image failed")
        [] OTHER                          -> Result(s5, Ret_Some(resized), "")

start_next_frame_StaysStale(self, extent, rc, acq, idx, n) ==
  LET \* cleanup_finished() only polls fences; then a missing future is
      \* replaced by now().
      s0 == IF self.previous_frame_end = None
            THEN [self EXCEPT !.previous_frame_end = Some(now)]
            ELSE self
      recreate == s0.recreate_swapchain
      s1 == IF recreate THEN RecreateSwapchain(s0, extent, rc) ELSE s0
      s2 == s1
      resized == s2.framebuffers = None
      s3 == IF resized
            THEN [s2 EXCEPT !.framebuffers = Some(NewFramebuffers(s2))]
            ELSE s2
      s4 == [s3 EXCEPT !.image_num = Some(idx),
                       !.acquire_future = Some(AcquireFuture(n, s3.swapchain.gen, idx))]
      s5 == with_command_builder(s4, Cmd("identity", None)).self
  IN  CASE recreate /\ rc = "unsupported" -> Result(s1, Ret_None, "")
        [] recreate /\ rc = "other"       -> Result(s1, Ret_Panic, "recreate_swapchain failed")
        [] acq = "out_of_date"            ->
             Result([s3 EXCEPT !.recreate_swapchain = TRUE], Ret_None, "")
        [] acq = "other"                  -> Result(s3, Ret_Panic, "acquire_next_image failed")
        [] OTHER                          -> Result(s5, Ret_Some(resized), "")

start_next_frame(self, extent, rc, acq, idx, n) ==
  LET \* cleanup_finished() only polls fences; then a missing future is
      \* replaced by now().
      s0 == IF self.previous_frame_end = None
            THEN [self EXCEPT !.previous_frame_end = Some(now)]
            ELSE self
      recreate == s0.recreate_swapchain
      s1 == IF recreate THEN RecreateSwapchain(s0, extent, rc) ELSE s0
      s2 == [s1 EXCEPT !.recreate_swapchain = FALSE]
      resized == s2.framebuffers = None
      s3 == IF resized
            THEN [s2 EXCEPT !.framebuffers = Some(NewFramebuffers(s2))]
            ELSE s2
      s4 == [s3 EXCEPT !.image_num = Some(idx),
                       !.acquire_future = Some(AcquireFuture(n, s3.swapchain.gen, idx))]
      s5 == with_command_builder(s4, Cmd("identity", None)).self
  IN  CASE recreate /\ rc = "unsupported" -> Result(s1, Ret_None, "")
        [] recreate /\ rc = "other"       -> Result(s1, Ret_Panic, "recreate_swapchain failed")
        [] acq = "out_of_date"            ->
             Result([s3 EXCEPT !.recreate_swapchain = TRUE], Ret_None, "")
        [] acq = "other"                  -> Result(s3, Ret_Panic, "acquire_next_image failed")
        [] OTHER                          -> Result(s5, Ret_Some(resized), "")

\* ------------------------------------------------------- begin_rendering
begin_rendering_FirstFramebuffer(self) ==
  IF self.image_num = None
  THEN Result(self, Ret_Panic, "Could not get image_num")
  ELSE IF self.framebuffers = None
  THEN Result(self, Ret_Panic, "Could not get framebuffers as a ref.")
  ELSE IF Unwrap(self.image_num) + 1 > Len(Unwrap(self.framebuffers))
  THEN Result(self, Ret_Panic, "index out of bounds")
  ELSE LET fb == Unwrap(self.framebuffers)[1]
           r  == with_command_builder(self, Cmd("begin_render_pass", Some(fb)))
       IN  Result(r.self, IF r.panic = "" THEN Ret_Unit ELSE Ret_Panic,
                  IF r.panic = "" THEN "" ELSE "Could not begin_render_pass.")

begin_rendering(self) ==
  IF self.image_num = None
  THEN Result(self, Ret_Panic, "Could not get image_num")
  ELSE IF self.framebuffers = None
  THEN Result(self, Ret_Panic, "Could not get framebuffers as a ref.")
  ELSE IF Unwrap(self.image_num) + 1 > Len(Unwrap(self.framebuffers))
  THEN Result(self, Ret_Panic, "index out of bounds")
  ELSE LET fb == Unwrap(self.framebuffers)[Unwrap(self.image_num) + 1]
           r  == with_command_builder(self, Cmd("begin_render_pass", Some(fb)))
       IN  Result(r.self, IF r.panic = "" THEN Ret_Unit ELSE Ret_Panic,
                  IF r.panic = "" THEN "" ELSE "Could not begin_render_pass.")

\* ------------------------------------------------------ commit_rendering
\* The future of an acquired image slot.
SlotFuture(opt) ==
  IF opt = None THEN now ELSE [deps |-> {AcquireAtom(Unwrap(opt).id)}]

\* The first expect() of commit_rendering that fires, "" when none does.
\* exec is the outcome of then_execute ("ok", "err").
CommitPanic_NoStateChecks(self, exec) ==
  CASE self.command_buffer_builder = None ->
         "Could not take command_buffer - maybe 'begin_rendering' was not called."
    [] self.previous_frame_end = None ->
         "Could not take previous_frame_end."
    [] exec # "ok" ->
         "Could not expecute the command_buffer."
    [] OTHER -> ""

CommitPanic_IgnoresExecute(self, exec) ==
  CASE self.command_buffer_builder = None ->
         "Could not take command_buffer - maybe 'begin_rendering' was not called."
    [] ~Unwrap(self.command_buffer_builder).inpass ->
         "Could not end_render_pass."
    [] self.previous_frame_end = None ->
         "Could not take previous_frame_end."
    [] self.acquire_future = None ->
         "Could not get acquired_future - maybe 'begin_rendering' was not called before 'commit_rendering'."
    [] self.image_num = None ->
         "Could not get image_num - maybe 'begin_rendering' was not called before 'commit_rendering'."
    [] OTHER -> ""

CommitPanic(self, exec) ==
  CASE self.command_buffer_builder = None ->
         "Could not take command_buffer - maybe 'begin_rendering' was not called."
    [] ~Unwrap(self.command_buffer_builder).inpass ->
         "Could not end_render_pass."
    [] self.previous_frame_end = None ->
         "Could not take previous_frame_end."
    [] self.acquire_future = None ->
         "Could not get acquired_future - maybe 'begin_rendering' was not called before 'commit_rendering'."
    [] exec # "ok" ->
         "Could not expecute the command_buffer."
    [] self.image_num = None ->
         "Could not get image_num - maybe 'begin_rendering' was not called before 'commit_rendering'."
    [] OTHER -> ""

\* The struct as commit_rendering leaves it when it panics with msg: every
\* take() before the failing expect() has emptied its field.
CommitTaken(self, msg) ==
  LET c1 == [self EXCEPT !.command_buffer_builder = None]
      c2 == [c1 EXCEPT !.previous_frame_end = None]
      c3 == [c2 EXCEPT !.acquire_future = None]
  IN  CASE msg = "Could not take command_buffer - maybe 'begin_rendering' was not called." -> self
        [] msg = "Could not end_render_pass."         -> c1
        [] msg = "Could not take previous_frame_end." -> c1
        [] msg = "Could not get acquired_future - maybe 'begin_rendering' was not called before 'commit_rendering'." -> c2
        [] OTHER -> c3

\* previous_frame_end.join(acquire_future): what the command buffer waits
\* for.
CommitWaits_NoPrevious(prev, slot) == SlotFuture(slot).deps

CommitWaits(prev, slot) == join(prev, SlotFuture(slot)).deps

\* then_swapchain_present comes after then_execute: the present request
\* waits for the command buffer too.
PresentWaits_BeforeExecute(waits, n) == waits

PresentWaits(waits, n) == waits \cup {FrameAtom(n)}

\* The chain previous_frame_end.join(acquire_future).then_execute(cb)
\* .then_swapchain_present(image_num) as handed to
\* then_signal_fence_and_flush.
Submission_LeavesPassOpen(self) ==
  LET n     == IF self.acquire_future = None THEN 0 ELSE Unwrap(self.acquire_future).id
      prev  == IF self.previous_frame_end = None THEN now ELSE Unwrap(self.previous_frame_end)
      b     == Unwrap(self.command_buffer_builder)
      waits == CommitWaits(prev, self.acquire_future)
  IN  [ frame         |-> n,
        waits         |-> waits,
        cmds          |-> b.cmds,
        image         |-> self.image_num,
        swapchain     |-> self.swapchain.gen,
        present_waits |-> PresentWaits(waits, n) ]

Submission(self) ==
  LET n     == IF self.acquire_future = None THEN 0 ELSE Unwrap(self.acquire_future).id
      prev  == IF self.previous_frame_end = None THEN now ELSE Unwrap(self.previous_frame_end)
      b     == Unwrap(self.command_buffer_builder)
      waits == CommitWaits(prev, self.acquire_future)
  IN  [ frame         |-> n,
        waits         |-> waits,
        cmds          |-> Append(b.cmds, Cmd("end_render_pass", None)),
        image         |-> self.image_num,
        swapchain     |-> self.swapchain.gen,
        present_waits |-> PresentWaits(waits, n) ]

\* The future the flushed chain becomes.
FlushedFuture(sub) == [deps |-> sub.present_waits \cup {PresentAtom(sub.frame)}]

\* What is stored in previous_frame_end for each outcome of
\* then_signal_fence_and_flush ("ok", "out_of_date", "other").
NewFrameEnd_NoneOnError(sub, flush) ==
  IF flush = "ok" THEN Some(FlushedFuture(sub))
  ELSE IF flush = "out_of_date" THEN Some(now) ELSE None

NewFrameEnd_KeepsChain(sub, flush) == Some(FlushedFuture(sub))

NewFrameEnd(sub, flush) ==
  IF flush = "ok" THEN Some(FlushedFuture(sub)) ELSE Some(now)

commit_rendering_KeepsBuilder(self, exec, flush) ==
  LET msg == CommitPanic(self, exec)
      sub == Submission(self)
      s4  == [self EXCEPT !.previous_frame_end =
                             NewFrameEnd(sub, flush),
                          !.acquire_future = None,
                          !.image_num = None,
                          !.recreate_swapchain = (flush = "out_of_date") \/ @]
  IN  IF msg # ""
      THEN [self |-> CommitTaken(self, msg), ret |-> Ret_Panic, panic |-> msg,
            submit |-> None]
      ELSE [self |-> s4, ret |-> << "()", flush >>, panic |-> "",
            submit |-> Some(sub)]

commit_rendering(self, exec, flush) ==
  LET msg == CommitPanic(self, exec)
      sub == Submission(self)
      s4  == [self EXCEPT !.command_buffer_builder = None,
                          !.previous_frame_end =
                             NewFrameEnd(sub, flush),
                          !.acquire_future = None,
                          !.image_num = None,
                          !.recreate_swapchain = (flush = "out_of_date") \/ @]
  IN  IF msg # ""
      THEN [self |-> CommitTaken(self, msg), ret |-> Ret_Panic, panic |-> msg,
            submit |-> None]
      ELSE [self |-> s4, ret |-> << "()", flush >>, panic |-> "",
            submit |-> Some(sub)]

\* ---------------------------------------------------------- load_texture
\* The upload's future is joined to the stored future, or stored when none
\* is.
FoldUpload_Replaces(prev, tex_future) == Some(tex_future)

FoldUpload(prev, tex_future) ==
  IF prev # None THEN Some(join(Unwrap(prev), tex_future)) ELSE Some(tex_future)

\* What load_texture hands back besides the struct: the return value, the
\* panic message and the upload ImmutableImage::from_iter started, if any.
Loaded(self, r, msg, upload) ==
  [self |-> self, ret |-> r, panic |-> msg, upload |-> upload]

\* ImmutableImage::from_iter creates a new image on every call: the n-th
\* image the renderer has created, with the dimensions of the decoded file.
NewTexture(path, n) == [texture |-> << path, n >>, dims |-> path]

\* The branch that decodes and uploads, whatever the store holds.  open is
\* the outcome of image::open and ImmutableImage::from_iter ("ok", "err").
UploadTexture(self, path, open, n) ==
  IF open # "ok"
  THEN Loaded(self, Ret_Panic, "Could not open image", None)
  ELSE LET tex_future == [deps |-> {UploadAtom(path)}]
           stuff      == NewTexture(path, n)
       IN  Loaded([self EXCEPT
                     !.previous_frame_end = FoldUpload(self.previous_frame_end, tex_future),
                     !.texture_store = (path :> stuff) @@ @],
                  << "texture", stuff >>, "", Some(UploadAtom(path)))

load_texture_NoCache(self, path, open, n) == UploadTexture(self, path, open, n)

load_texture(self, path, open, n) ==
  IF path \in DOMAIN self.texture_store
  THEN Loaded(self, << "texture", self.texture_store[path] >>, "", None)
  ELSE UploadTexture(self, path, open, n)

\* ---------------------------------------------------------------- actions
RecreateOutcomes == {"ok", "unsupported", "other"}
AcquireOutcomes  == {"ok", "out_of_date", "other"}
ExecOutcomes     == {"ok", "err"}
FlushOutcomes    == {"ok", "out_of_date", "other"}
OpenOutcomes     == {"ok", "err"}
CallerCmds       == {"copy_buffer", "draw", "end_render_pass"}

Called(op, r) ==
  /\ vkr' = r.self
  /\ ret' = r.ret
  /\ panic' = r.panic
  /\ last_op' = op

\* extent is the size of the window when the swapchain is recreated.
StartNextFrame ==
  /\ Alive
  /\ \E extent \in Dims, rc \in RecreateOutcomes, acq \in AcquireOutcomes,
        idx \in 0..(NumImages - 1) :
       /\ vkr.recreate_swapchain \/ (rc = "ok" /\ extent = vkr.dimensions)
       /\ (vkr.recreate_swapchain /\ rc = "ok") => vkr.swapchain.gen < MaxGen
       /\ (vkr.recreate_swapchain /\ rc # "ok") => (acq = "ok" /\ idx = 0)
       /\ acq # "ok" => idx = 0
       /\ acq = "ok" => acquired < MaxAcquires
       /\ LET r == start_next_frame(vkr, extent, rc, acq, idx, acquired + 1)
          IN  /\ Called("start_next_frame", r)
              /\ acquired' = IF r.ret[1] = "Some" THEN acquired + 1 ELSE acquired
  /\ flushed' = None
  /\ uploaded' = None
  /\ UNCHANGED << in_flight, uploads, pipelines, desc_sets, fps, fps_deltas >>

BuilderLen(self) ==
  IF self.command_buffer_builder = None
  THEN 0
  ELSE Len(Unwrap(self.command_buffer_builder).cmds)

BeginRendering ==
  /\ Alive
  /\ BuilderLen(vkr) < MaxCmds
  /\ Called("begin_rendering", begin_rendering(vkr))
  /\ flushed' = None
  /\ uploaded' = None
  /\ UNCHANGED << acquired, in_flight, uploads, pipelines, desc_sets, fps, fps_deltas >>

\* A caller's closure: a copy, a draw or the end of the render pass.
WithCommandBuilder ==
  /\ Alive
  /\ BuilderLen(vkr) < MaxCmds
  /\ \E k \in CallerCmds :
       LET r == with_command_builder(vkr, Cmd(k, None))
       IN  Called("with_command_builder",
                  Result(r.self, IF r.panic = "" THEN Ret_Unit ELSE Ret_Panic, r.panic))
  /\ flushed' = None
  /\ uploaded' = None
  /\ UNCHANGED << acquired, in_flight, uploads, pipelines, desc_sets, fps, fps_deltas >>

\* The GPU work among a set of atoms: frames and uploads.
Tracked(atoms) == {a \in atoms : a[1] \in {"frame", "upload"}}

InFlightAtoms == {x.atom : x \in in_flight}

\* What the GPU still has to finish before it may start atom a, submitted
\* behind the future f.
Queued(a, f) == [atom |-> a, waits |-> Tracked(f.deps) \cap InFlightAtoms]

\* A flushed chain is on the GPU queue when commit_rendering returns.  A
\* chain whose flush failed is destroyed, and destroying a GpuFuture blocks
\* until the GPU has finished it: nothing the chain held is in flight
\* afterwards.
CommitRendering ==
  /\ Alive
  /\ \E exec \in ExecOutcomes, flush \in FlushOutcomes :
       /\ exec # "ok" => flush = "ok"
       /\ LET r == commit_rendering(vkr, exec, flush)
          IN  /\ Called("commit_rendering", r)
              /\ flushed' = r.submit
              /\ in_flight' =
                   IF r.submit = None THEN in_flight
                   ELSE IF flush = "ok"
                   THEN in_flight \cup {Queued(FrameAtom(Unwrap(r.submit).frame),
                                               [deps |-> Unwrap(r.submit).waits])}
                   ELSE {x \in in_flight : x.atom \notin Unwrap(r.submit).waits}
  /\ uploaded' = None
  /\ UNCHANGED << acquired, uploads, pipelines, desc_sets, fps, fps_deltas >>

\* ImmutableImage::from_iter submits the upload when it returns.
LoadTexture ==
  /\ Alive
  /\ \E path \in Keys, open \in OpenOutcomes :
       LET r == load_texture(vkr, path, open, uploads + 1)
       IN  /\ Called("load_texture", r)
           /\ uploaded' = r.upload
           /\ uploads' = IF r.upload # None THEN uploads + 1 ELSE uploads
           /\ in_flight' = IF r.upload # None
                           THEN in_flight \cup {Queued(Unwrap(r.upload), now)}
                           ELSE in_flight
  /\ flushed' = None
  /\ UNCHANGED << acquired, pipelines, desc_sets, fps, fps_deltas >>

\* The caller sets the public field recreate_swapchain (a resize
\* notification).
MarkStale ==
  /\ Alive
  /\ ~vkr.recreate_swapchain
  /\ vkr' = [vkr EXCEPT !.recreate_swapchain = TRUE]
  /\ last_op' = "mark_stale"
  /\ ret' = Ret_Unit
  /\ flushed' = None
  /\ uploaded' = None
  /\ UNCHANGED << acquired, in_flight, panic, uploads, pipelines, desc_sets, fps, fps_deltas >>

\* The GPU finishes an upload or a frame, once everything it waits for is
\* finished.
GpuComplete ==
  /\ Alive
  /\ \E x \in in_flight :
       /\ x.waits \cap InFlightAtoms = {}
       /\ in_flight' = in_flight \ {x}
  /\ UNCHANGED << vkr, acquired, last_op, ret, flushed, panic, uploads, uploaded,
                  pipelines, desc_sets, fps, fps_deltas >>

Next ==
  \/ StartNextFrame
  \/ BeginRendering
  \/ WithCommandBuilder
  \/ CommitRendering
  \/ LoadTexture
  \/ MarkStale
  \/ GpuComplete

Spec == Init /\ [][Next]_vars

\* ------------------------------------------------- longer command batches
\* The frame loop alone, without texture loads, resize notifications and
\* GPU completions, with room for more commands in the pending batch.
MaxBatch == 3      \* commands in one pending command buffer, SpecBatch

BatchBeginRendering ==
  /\ Alive
  /\ BuilderLen(vkr) < MaxBatch
  /\ Called("begin_rendering", begin_rendering(vkr))
  /\ flushed' = None
  /\ uploaded' = None
  /\ UNCHANGED << acquired, in_flight, uploads, pipelines, desc_sets, fps, fps_deltas >>

BatchWithCommandBuilder ==
  /\ Alive
  /\ BuilderLen(vkr) < MaxBatch
  /\ \E k \in CallerCmds :
       LET r == with_command_builder(vkr, Cmd(k, None))
       IN  Called("with_command_builder",
                  Result(r.self, IF r.panic = "" THEN Ret_Unit ELSE Ret_Panic, r.panic))
  /\ flushed' = None
  /\ uploaded' = None
  /\ UNCHANGED << acquired, in_flight, uploads, pipelines, desc_sets, fps, fps_deltas >>

NextBatch ==
  \/ StartNextFrame
  \/ BatchBeginRendering
  \/ BatchWithCommandBuilder
  \/ CommitRendering

SpecBatch == Init /\ [][NextBatch]_vars

\* ------------------------------------------------------------- pipelines
\* The pipeline constructors and Texture2DPipeline::desc_set_for_texture.
MaxNames     == 2      \* length of material_names
MaxPipelines == 2      \* pipelines constructed in one run
MaxDescSets  == 6      \* descriptor set builds attempted in one run

MaterialNames == {"red", "blue"}

\* Textures handed to desc_set_for_texture, named by the key they were
\* loaded under.
PipelineTextures == {"a.png", "b.png"}

\* What the layout the shaders declare at a set index makes of the one
\* resource these pipelines put in a set: "ok", "add_err" (add_buffer or
\* add_sampled_image refuses a resource of the wrong type), "build_err"
\* (build refuses a set whose descriptors are not all filled).
DescOutcomes == {"ok", "add_err", "build_err"}

\* The set indexes each pipeline uses.
UsedSets(kind) ==
  CASE kind = "phong"     -> 0..2
    [] kind = "texture2d" -> 0..1
    [] kind = "color3d"   -> 0..0

Layouts(kind) == [UsedSets(kind) -> DescOutcomes]

NameLists == UNION {[1..k -> MaterialNames] : k \in 0..MaxNames}

\* One attempted build of a descriptor set: the n-th of the run, for set
\* index set of the pipeline, on the resource binding.
DescSet(pipeline, set, binding, n, outcome) ==
  [pipeline |-> pipeline, set |-> set, binding |-> binding, id |-> n,
   outcome |-> outcome]

\* The expect() that fires on the outcome, "" when none does.
DescSetPanic_IgnoresBuild(resource, outcome) ==
  CASE outcome = "add_err" /\ resource = "uniform" ->
         "Could not add uniform_device_buffer."
    [] outcome = "add_err" /\ resource = "sampled_image" ->
         "Could not add sampled image."
    [] OTHER -> ""

DescSetPanic(resource, outcome) ==
  CASE outcome = "add_err" /\ resource = "uniform" ->
         "Could not add uniform_device_buffer."
    [] outcome = "add_err" /\ resource = "sampled_image" ->
         "Could not add sampled image."
    [] outcome = "build_err" /\ resource = "uniform" ->
         "Could not build uniform_desc_set."
    [] outcome = "build_err" /\ resource = "sampled_image" ->
         "Could not build the image sampler set."
    [] OTHER -> ""

\* The descriptor sets a constructor builds for tries, in order, up to and
\* including the first whose expect() fires.
BuildSets(id, layout, tries, n) ==
  LET sets   == [i \in 1..Len(tries) |->
                   DescSet(id, tries[i].set, tries[i].binding, n + i,
                           layout[tries[i].set])]
      failed == {i \in 1..Len(sets) : DescSetPanic("uniform", sets[i].outcome) # ""}
      first  == IF failed = {} THEN 0
                ELSE CHOOSE i \in failed : \A j \in failed : i <= j
  IN  [sets  |-> IF first = 0 THEN sets ELSE SubSeq(sets, 1, first),
       panic |-> IF first = 0 THEN ""
                 ELSE DescSetPanic("uniform", sets[first].outcome)]

\* What a constructor hands back: the pipeline object if it returned, the
\* descriptor set builds it attempted and the panic message.
Constructed(b, pipeline) ==
  [pipeline |-> IF b.panic = "" THEN Some(pipeline) ELSE None,
   built    |-> b.sets,
   panic    |-> b.panic]

\* id is the identity of the new GraphicsPipeline, layout what its shaders
\* declare, n the number of descriptor set builds attempted before.  A name
\* listed twice gets a second buffer and set, and insert() keeps the last.
PhongPipeline_new(material_names, layout, id, n) ==
  LET k     == Len(material_names)
      tries == << [set |-> 0, binding |-> "proj"] >>
               \o [i \in 1..k |-> [set |-> 1, binding |-> material_names[i]]]
               \o << [set |-> 2, binding |-> "light"] >>
      b     == BuildSets(id, layout, tries, n)
      names == {material_names[i] : i \in 1..k}
      last(name) == CHOOSE i \in 1..k :
                      /\ material_names[i] = name
                      /\ \A j \in 1..k : material_names[j] = name => j <= i
  IN  Constructed(b,
        [kind      |-> "phong",
         id        |-> id,
         layout    |-> layout,
         proj      |-> b.sets[1],
         materials |-> [name \in names |-> b.sets[1 + last(name)]],
         light     |-> b.sets[k + 2]])

Texture2DPipeline_new(layout, id, n) ==
  LET b == BuildSets(id, layout, << [set |-> 0, binding |-> "proj"] >>, n)
  IN  Constructed(b,
        [kind             |-> "texture2d",
         id               |-> id,
         layout           |-> layout,
         proj_desc_set    |-> b.sets[1],
         image_sampler_desc_pool |-> 0,
         may_tex_desc_set |-> None])

Color3DPipeline_new(layout, id, n) ==
  LET b == BuildSets(id, layout, << [set |-> 0, binding |-> "proj"] >>, n)
  IN  Constructed(b,
        [kind          |-> "color3d",
         id            |-> id,
         layout        |-> layout,
         proj_desc_set |-> b.sets[1]])

\* A set is taken from the pool and built on the texture at every call;
\* may_tex_desc_set is neither read nor written.
desc_set_for_texture(self, texture, n) ==
  LET set == DescSet(self.id, 1, texture, n + 1, self.layout[1])
      msg == DescSetPanic("sampled_image", set.outcome)
  IN  [self  |-> [self EXCEPT !.image_sampler_desc_pool = @ + 1],
       ret   |-> IF msg = "" THEN << "desc_set", set >> ELSE Ret_Panic,
       built |-> << set >>,
       panic |-> msg]

\* A constructor call: the caller keeps the pipeline it returns.
NewPipeline(op, r) ==
  /\ Len(desc_sets) + Len(r.built) <= MaxDescSets
  /\ desc_sets' = desc_sets \o r.built
  /\ pipelines' = IF r.pipeline = None THEN pipelines
                  ELSE Append(pipelines, Unwrap(r.pipeline))
  /\ panic' = r.panic
  /\ ret' = IF r.pipeline = None THEN Ret_Panic
            ELSE << "pipeline", Unwrap(r.pipeline).id >>
  /\ last_op' = op
  /\ UNCHANGED << vkr, acquired, in_flight, flushed, uploads, uploaded,
                  fps, fps_deltas >>

PhongNew ==
  /\ Alive
  /\ Len(pipelines) < MaxPipelines
  /\ \E material_names \in NameLists, layout \in Layouts("phong") :
       NewPipeline("PhongPipeline::new",
                   PhongPipeline_new(material_names, layout,
                                     Len(pipelines) + 1, Len(desc_sets)))

Texture2DNew ==
  /\ Alive
  /\ Len(pipelines) < MaxPipelines
  /\ \E layout \in Layouts("texture2d") :
       NewPipeline("Texture2DPipeline::new",
                   Texture2DPipeline_new(layout, Len(pipelines) + 1, Len(desc_sets)))

Color3DNew ==
  /\ Alive
  /\ Len(pipelines) < MaxPipelines
  /\ \E layout \in Layouts("color3d") :
       NewPipeline("Color3DPipeline::new",
                   Color3DPipeline_new(layout, Len(pipelines) + 1, Len(desc_sets)))

DescSetForTexture ==
  /\ Alive
  /\ Len(desc_sets) < MaxDescSets
  /\ \E i \in DOMAIN pipelines, texture \in PipelineTextures :
       /\ pipelines[i].kind = "texture2d"
       /\ LET r == desc_set_for_texture(pipelines[i], texture, Len(desc_sets))
          IN  /\ pipelines' = [pipelines EXCEPT ![i] = r.self]
              /\ desc_sets' = desc_sets \o r.built
              /\ ret' = r.ret
              /\ panic' = r.panic
  /\ last_op' = "desc_set_for_texture"
  /\ UNCHANGED << vkr, acquired, in_flight, flushed, uploads, uploaded,
                  fps, fps_deltas >>

NextPipelines ==
  \/ PhongNew
  \/ Texture2DNew
  \/ Color3DNew
  \/ DescSetForTexture

SpecPipelines == Init /\ [][NextPipelines]_vars

\* ------------------------------------------------------------ FPSCounter
\* next_frame: dt is the time since last_instant, which is drawn here
\* instead of being computed from two instants.
next_frame(self, dt) ==
  [self |-> [self EXCEPT !.buffer[self.index + 1] = dt,
                         !.index = (self.index + 1) % BufferLen],
   ret  |-> dt]

last_delta(self) == self.buffer[self.index + 1]

FpsNextFrame ==
  /\ Len(fps_deltas) < MaxFrames
  /\ \E dt \in Deltas :
       LET r == next_frame(fps, dt)
       IN  /\ fps' = r.self
           /\ fps_deltas' = Append(fps_deltas, r.ret)
           /\ ret' = << "dt", r.ret >>
  /\ last_op' = "next_frame"
  /\ UNCHANGED << vkr, acquired, in_flight, flushed, panic, uploads, uploaded,
                  pipelines, desc_sets >>

FpsLastDelta ==
  /\ ret' = << "last_delta", last_delta(fps) >>
  /\ last_op' = "last_delta"
  /\ UNCHANGED << vkr, acquired, in_flight, flushed, panic, uploads, uploaded,
                  pipelines, desc_sets, fps, fps_deltas >>

NextFps ==
  \/ FpsNextFrame
  \/ FpsLastDelta

SpecFps == Init /\ [][NextFps]_vars

\* ================================================================ claims
FutureDeps(opt) == IF opt = None THEN {} ELSE Unwrap(opt).deps

\* The steps that are a call of one method.
StartCalled  == last_op' = "start_next_frame" /\ StartNextFrame
CommitCalled == last_op' = "commit_rendering" /\ CommitRendering
LoadCalled   == last_op' = "load_texture" /\ LoadTexture

\* A commit_rendering call that returned.
CommitReturned == CommitCalled /\ panic' = ""

InFlightFrames  == {x \in in_flight : x.atom[1] = "frame"}
InFlightUploads == {x \in in_flight : x.atom[1] = "upload"}

\* ---- C1
\* C1 as claimed, for runs without texture loads: every commit_rendering
\* that returns replaces previous_frame_end by a future that holds the
\* replaced one, whatever the outcome of the submission.
C1_Original ==
  [][(CommitReturned /\ DOMAIN vkr.texture_store = {}) =>
       /\ vkr.previous_frame_end # None
       /\ vkr'.previous_frame_end # None
       /\ FutureDeps(vkr.previous_frame_end) \subseteq FutureDeps(vkr'.previous_frame_end)]_vars

\* C1, amended: every commit_rendering that returns takes the stored future
\* and stores one new future.  When the submission succeeded the new future
\* holds the replaced one and the frame just submitted; when it failed
\* (out of date or any other error) the new future is now(): the replaced
\* one went into the failed chain and is not joined into its replacement.
C1_CommitReplacesFrameEnd ==
  [][CommitReturned =>
       /\ vkr.previous_frame_end # None
       /\ vkr'.previous_frame_end # None
       /\ ret'[2] = "ok" =>
            /\ FutureDeps(vkr.previous_frame_end) \subseteq FutureDeps(vkr'.previous_frame_end)
            /\ FrameAtom(Unwrap(vkr.acquire_future).id)
                 \in FutureDeps(vkr'.previous_frame_end) \ FutureDeps(vkr.previous_frame_end)
       /\ ret'[2] # "ok" => vkr'.previous_frame_end = Some(now)]_vars

\* Two frames committed in turn: the second future holds the first frame.
C1_Witness ==
  /\ last_op = "commit_rendering"
  /\ ret = << "()", "ok" >>
  /\ {FrameAtom(1), FrameAtom(2)} \subseteq FutureDeps(vkr.previous_frame_end)

\* ---- C2
\* C2 as claimed: start_next_frame called while an acquired image slot is
\* stored panics and leaves the stored slot as it is.
C2_SecondStartIsFatal ==
  [][(StartCalled /\ vkr.image_num # None) =>
       /\ panic' # ""
       /\ vkr'.image_num = vkr.image_num
       /\ vkr'.acquire_future = vkr.acquire_future]_vars

\* ---- C3
\* C3: commit_rendering called while no acquired image slot is stored
\* panics; it hands no chain to the queue and puts nothing in flight,
\* whether or not a command buffer builder is pending.
C3_CommitWithoutSlotIsFatal ==
  [][(CommitCalled /\ vkr.image_num = None) =>
       /\ panic' # ""
       /\ flushed' = None
       /\ in_flight' = in_flight]_vars

\* commit_rendering on an idle renderer that holds commands appended through
\* with_command_builder.
C3_Witness ==
  /\ last_op = "commit_rendering"
  /\ panic = "Could not end_render_pass."
  /\ vkr.image_num = None
  /\ vkr.previous_frame_end # None

\* ---- C4
\* What a rebuild inside one start_next_frame call leaves: the next
\* swapchain generation, its images, and framebuffers built from them.
RebuiltOnce ==
  /\ vkr'.swapchain.gen = vkr.swapchain.gen + 1
  /\ vkr'.images = NewImages(vkr.swapchain.gen + 1)
  /\ vkr'.framebuffers = Some(NewFramebuffers(vkr'))
  /\ ~vkr'.recreate_swapchain

\* C4 as claimed: when the stale flag has just been set on an idle renderer,
\* the next start_next_frame rebuilds once and returns Some(true).
C4_Original ==
  [][(StartCalled /\ last_op = "mark_stale" /\ vkr.image_num = None) =>
       (ret' = Ret_Some(TRUE) /\ RebuiltOnce)]_vars

\* C4, amended: with the stale flag set on an idle renderer, the next
\* start_next_frame that returns Some has rebuilt the swapchain images and
\* the framebuffers exactly once and returns Some(true); when the rebuild
\* is refused (unsupported dimensions) or the acquisition is out of date it
\* returns None with the flag still set.
C4_RebuildReported ==
  [][(StartCalled /\ vkr.recreate_swapchain /\ vkr.image_num = None) =>
       /\ ret'[1] = "Some" => (ret' = Ret_Some(TRUE) /\ RebuiltOnce)
       /\ ret' = Ret_None => vkr'.recreate_swapchain]_vars

C4_Witness ==
  /\ last_op = "start_next_frame"
  /\ ret = Ret_Some(TRUE)
  /\ vkr.swapchain.gen = 1
  /\ vkr.framebuffers = Some(NewFramebuffers(vkr))

\* ---- C5
\* C5 as claimed: between operations the framebuffers are absent, or there
\* is one per image of the current swapchain, built from it, and swapchain
\* and framebuffers have the recorded dimensions.
C5_NeverPartiallyStale ==
  Alive =>
    \/ vkr.framebuffers = None
    \/ /\ Len(Unwrap(vkr.framebuffers)) = Len(vkr.images)
       /\ \A i \in 1..Len(vkr.images) :
            /\ Unwrap(vkr.framebuffers)[i].image = vkr.images[i]
            /\ Unwrap(vkr.framebuffers)[i].depth = vkr.dimensions
       /\ vkr.swapchain.dims = vkr.dimensions

\* ---- C6
\* C6 as claimed: between operations previous_frame_end always holds a
\* future, from construction on.
C6_Original == Alive => vkr.previous_frame_end # None

\* C6, amended: previous_frame_end is empty on a new renderer; every
\* start_next_frame, every commit_rendering that returns and every
\* load_texture that uploads leaves a future in it, and once it holds one it
\* holds one after every operation that returns.
C6_OneFrameEndOnceStarted ==
  [][/\ (StartCalled \/ CommitReturned) => vkr'.previous_frame_end # None
     /\ (LoadCalled /\ panic' = "" /\ vkr'.texture_store # vkr.texture_store) =>
          vkr'.previous_frame_end # None
     /\ (vkr.previous_frame_end # None /\ panic' = "") =>
          vkr'.previous_frame_end # None]_vars

\* A commit whose submission failed with an error other than out of date
\* has returned.
C6_Witness ==
  /\ last_op = "commit_rendering"
  /\ ret = << "()", "other" >>
  /\ vkr.previous_frame_end = Some(now)

\* ---- C7
\* C7 as claimed, for the steps that return: a stored slot leaves the
\* struct only through a commit_rendering that hands it to the queue.
C7_SlotConsumedOnce ==
  [][(vkr.acquire_future # None /\ vkr'.acquire_future # vkr.acquire_future /\ panic' = "") =>
       /\ CommitCalled
       /\ flushed' # None
       /\ Unwrap(flushed').frame = Unwrap(vkr.acquire_future).id
       /\ Unwrap(flushed').image = vkr.image_num
       /\ vkr'.acquire_future = None
       /\ vkr'.image_num = None]_vars

\* ---- C8
\* C8: the chain a commit_rendering hands to the queue makes the command
\* buffer wait for the future that was stored when it was called and for
\* the image-available future of the stored slot, and makes the present
\* request of that slot's image wait for the command buffer.
C8_BatchChained ==
  [][CommitReturned =>
       /\ flushed' # None
       /\ FutureDeps(vkr.previous_frame_end) \subseteq Unwrap(flushed').waits
       /\ AcquireAtom(Unwrap(vkr.acquire_future).id) \in Unwrap(flushed').waits
       /\ Unwrap(flushed').image = vkr.image_num
       /\ Unwrap(flushed').waits \subseteq Unwrap(flushed').present_waits
       /\ FrameAtom(Unwrap(flushed').frame) \in Unwrap(flushed').present_waits]_vars

\* The second frame's chain waits for the first frame and for its own
\* image.
C8_Witness ==
  /\ flushed # None
  /\ {FrameAtom(1), AcquireAtom(2)} \subseteq Unwrap(flushed).waits

C10_Original ==
  [][CommitReturned =>
       \A k \in DOMAIN vkr.texture_store : UploadAtom(k) \in Unwrap(flushed').waits]_vars

\* C10, amended: load_texture joins the upload's future to the stored one
\* (it stores the upload's future alone only when none is stored), and
\* every chain handed to the queue waits for every upload the stored future
\* holds and for every upload that is unfinished.  A commit whose
\* submission failed stores now(), so later chains do not wait for uploads
\* that were joined before it.
C10_UploadJoined ==
  [][/\ (LoadCalled /\ panic' = "" /\ vkr'.texture_store # vkr.texture_store) =>
          \E k \in DOMAIN vkr'.texture_store \ DOMAIN vkr.texture_store :
            FutureDeps(vkr'.previous_frame_end)
              = FutureDeps(vkr.previous_frame_end) \cup {UploadAtom(k)}
     /\ CommitReturned =>
          /\ \A k \in DOMAIN vkr.texture_store :
               UploadAtom(k) \in FutureDeps(vkr.previous_frame_end) =>
                 UploadAtom(k) \in Unwrap(flushed').waits
          /\ \A x \in InFlightUploads : x.atom \in Unwrap(flushed').waits]_vars

\* A chain handed to the queue while the upload is unfinished waits for it.
C10_Witness ==
  /\ flushed # None
  /\ InFlightUploads # {}
  /\ \A x \in InFlightUploads : x.atom \in Unwrap(flushed).waits

\* ---- C11
\* C11: over every sequence of load_texture calls an upload is started only
\* for a key that is not stored, so at most once per key; a call for a
\* stored key returns the stored texture and dimensions; no step replaces
\* or removes a stored entry.
C11_LoadedOncePerKey ==
  [][/\ \A k \in DOMAIN vkr.texture_store :
          /\ k \in DOMAIN vkr'.texture_store
          /\ vkr'.texture_store[k] = vkr.texture_store[k]
     /\ uploads' = Cardinality(DOMAIN vkr'.texture_store)
     /\ LoadCalled =>
          /\ uploaded' # None => Unwrap(uploaded')[2] \notin DOMAIN vkr.texture_store
          /\ panic' = "" =>
               \E k \in DOMAIN vkr'.texture_store :
                 /\ ret' = << "texture", vkr'.texture_store[k] >>
                 /\ k \in DOMAIN vkr.texture_store =>
                      ret' = << "texture", vkr.texture_store[k] >>]_vars

\* The second load_texture of a path: the texture of the first upload comes
\* back and no upload was started.
C11_Witness ==
  /\ last_op = "load_texture"
  /\ uploaded = None
  /\ uploads = 1
  /\ \E k \in DOMAIN vkr.texture_store :
       ret = << "texture", NewTexture(k, 1) >>

\* ---- C12
\* C12: load_texture for a stored key returns the stored entry, starts no
\* upload and leaves every field of the renderer as it was, also while the
\* first upload is unfinished.
C12_CacheHitChangesNothing ==
  [][(LoadCalled /\ Keys \subseteq DOMAIN vkr.texture_store) =>
       /\ panic' = ""
       /\ vkr' = vkr
       /\ in_flight' = in_flight
       /\ uploaded' = None
       /\ uploads' = uploads
       /\ \E k \in Keys : ret' = << "texture", vkr.texture_store[k] >>]_vars

\* A load_texture that started no upload while the upload of the stored
\* texture is unfinished.
C12_Witness ==
  /\ last_op = "load_texture"
  /\ ret[1] = "texture"
  /\ uploaded = None
  /\ InFlightUploads # {}

\* ---- C13
\* The inputs under which start_next_frame gets as far as
\* acquire_next_image: no recreation is due, or the recreation succeeds.
ReachesAcquire(self, rc) == ~self.recreate_swapchain \/ rc = "ok"

\* An out-of-date acquisition, in every state and for every size of the
\* window: the call returns None, sets the stale flag and stores no slot.
OutOfDateAcquire ==
  Alive =>
    \A extent \in Dims, rc \in RecreateOutcomes, idx \in 0..(NumImages - 1) :
      ReachesAcquire(vkr, rc) =>
        LET r == start_next_frame(vkr, extent, rc, "out_of_date", idx, acquired + 1)
        IN  /\ r.panic = ""
            /\ r.ret = Ret_None
            /\ r.self.recreate_swapchain
            /\ r.self.image_num = vkr.image_num
            /\ r.self.acquire_future = vkr.acquire_future

\* The start_next_frame that follows one that returned None: when it
\* returns Some it has rebuilt, returns Some(true) and its slot was acquired
\* from the rebuilt swapchain; otherwise it stores no slot.
RetryAfterNone ==
  (StartCalled /\ last_op = "start_next_frame" /\ ret = Ret_None) =>
    /\ vkr.recreate_swapchain
    /\ ret'[1] = "Some" =>
         /\ ret' = Ret_Some(TRUE)
         /\ RebuiltOnce
         /\ Unwrap(vkr'.acquire_future).gen = vkr'.swapchain.gen
         /\ Unwrap(vkr'.acquire_future).id = acquired + 1
    /\ ret'[1] # "Some" =>
         /\ vkr'.image_num = vkr.image_num
         /\ vkr'.acquire_future = vkr.acquire_future

C14_UnsupportedDimensionsRetried ==
  (Alive /\ vkr.recreate_swapchain) =>
    \A extent \in Dims, acq \in AcquireOutcomes, idx \in 0..(NumImages - 1) :
      LET r == start_next_frame(vkr, extent, "unsupported", acq, idx, acquired + 1)
          again == start_next_frame(r.self, extent, "ok", "ok", idx, acquired + 1)
      IN  /\ r.panic = ""
          /\ r.ret = Ret_None
          /\ r.self.recreate_swapchain
          /\ r.self.image_num = vkr.image_num
          /\ r.self.acquire_future = vkr.acquire_future
          /\ again.ret = Ret_Some(TRUE)
          /\ again.self.swapchain.gen = vkr.swapchain.gen + 1

\* A refused recreation on a renderer that never built framebuffers.
C14_Witness ==
  /\ last_op = "start_next_frame"
  /\ ret = Ret_None
  /\ vkr.recreate_swapchain
  /\ vkr.framebuffers = None
  /\ vkr.swapchain.gen = 0

\* ---- C15
\* A slot is stored, a future is stored and the pending builder has its
\* render pass open: commit_rendering gets as far as then_execute.
RenderPassOpen(self) ==
  /\ self.image_num # None
  /\ self.acquire_future # None
  /\ self.previous_frame_end # None
  /\ self.command_buffer_builder # None
  /\ Unwrap(self.command_buffer_builder).inpass

\* C15: when then_signal_fence_and_flush reports OutOfDate, commit_rendering
\* returns, with the stale flag set, now() stored as previous_frame_end, and
\* the slot and the pending builder taken.
C15_OutOfDateFlush ==
  (Alive /\ RenderPassOpen(vkr)) =>
    LET r == commit_rendering(vkr, "ok", "out_of_date")
    IN  /\ r.panic = ""
        /\ r.ret = << "()", "out_of_date" >>
        /\ r.self.recreate_swapchain
        /\ r.self.previous_frame_end = Some(now)
        /\ r.self.image_num = None
        /\ r.self.acquire_future = None
        /\ r.self.command_buffer_builder = None

\* A commit whose flush was out of date has returned.
C15_Witness ==
  /\ last_op = "commit_rendering"
  /\ ret = << "()", "out_of_date" >>
  /\ panic = ""
  /\ vkr.recreate_swapchain
  /\ vkr.swapchain.gen = 0
  /\ vkr.previous_frame_end = Some(now)
  /\ vkr.image_num = None

\* ---- C16
\* C16 as claimed: from the same state, a flush that fails with another
\* error leaves the renderer exactly as an out-of-date flush does.
C16_Original ==
  (Alive /\ RenderPassOpen(vkr)) =>
    commit_rendering(vkr, "ok", "other").self
      = commit_rendering(vkr, "ok", "out_of_date").self

\* C16, amended: from the same state, a flush that fails with another error
\* returns like an out-of-date flush and leaves the same future, slot and
\* builder, but it does not set the stale flag: the flag stays as it was,
\* while the out-of-date flush sets it.
C16_OtherFailureNotMarkedStale ==
  (Alive /\ RenderPassOpen(vkr)) =>
    LET other == commit_rendering(vkr, "ok", "other")
        ood   == commit_rendering(vkr, "ok", "out_of_date")
    IN  /\ other.panic = "" /\ ood.panic = ""
        /\ other.self = [ood.self EXCEPT !.recreate_swapchain = vkr.recreate_swapchain]
        /\ ood.self.recreate_swapchain
        /\ other.self.previous_frame_end = Some(now)

\* A commit whose flush failed with another error has returned and the
\* renderer is not marked stale.
C16_Witness ==
  /\ last_op = "commit_rendering"
  /\ ret = << "()", "other" >>
  /\ panic = ""
  /\ ~vkr.recreate_swapchain
  /\ vkr.image_num = None

C18_AcquireFailureIsFatal ==
  Alive =>
    \A extent \in Dims, rc \in RecreateOutcomes, idx \in 0..(NumImages - 1) :
      ReachesAcquire(vkr, rc) =>
        LET r == start_next_frame(vkr, extent, rc, "other", idx, acquired + 1)
        IN  /\ r.panic # ""
            /\ r.ret = Ret_Panic
            /\ r.self.image_num = vkr.image_num
            /\ r.self.acquire_future = vkr.acquire_future

\* The run has ended in start_next_frame at the acquisition, on an idle
\* renderer.
C18_Witness ==
  /\ last_op = "start_next_frame"
  /\ panic = "acquire_next_image failed"
  /\ ret = Ret_Panic
  /\ vkr.image_num = None

\* ---- C19
\* C19: a start_next_frame that returns Some returns Some(true) exactly
\* when it built the framebuffers in that call, which it does when they were
\* absent or the swapchain was recreated, and Some(false) when it kept the
\* framebuffers it found; the first one that returns Some on a new renderer
\* returns Some(true); the index of the stored slot is that of an image of
\* the swapchain.
C19_ResizedIffFramebuffersBuilt ==
  [][(StartCalled /\ ret'[1] = "Some") =>
       /\ ret' \in {Ret_Some(TRUE), Ret_Some(FALSE)}
       /\ ret' = Ret_Some(TRUE) <=> vkr'.framebuffers # vkr.framebuffers
       /\ ret' = Ret_Some(TRUE) <=> (vkr.framebuffers = None \/ vkr.recreate_swapchain)
       /\ vkr'.framebuffers = Some(NewFramebuffers(vkr'))
       /\ acquired = 0 => ret' = Ret_Some(TRUE)
       /\ vkr'.image_num # None
       /\ Unwrap(vkr'.image_num) \in 0..(Len(vkr'.images) - 1)
       /\ Unwrap(vkr'.acquire_future).index = Unwrap(vkr'.image_num)]_vars

\* The second frame of a renderer that was never stale: the framebuffers of
\* the first frame are kept.
C19_Witness ==
  /\ last_op = "start_next_frame"
  /\ ret = Ret_Some(FALSE)
  /\ acquired = 2
  /\ vkr.swapchain.gen = 0
  /\ vkr.framebuffers = Some(NewFramebuffers(vkr))

\* ---- C20
\* No slot is stored and no builder is pending.
Idle(self) ==
  /\ self.image_num = None
  /\ self.acquire_future = None
  /\ self.command_buffer_builder = None

PassClosedByCaller(self) ==
  /\ self.command_buffer_builder # None
  /\ LET b == Unwrap(self.command_buffer_builder)
     IN  /\ ~b.inpass
         /\ Len(b.cmds) > 0
         /\ b.cmds[Len(b.cmds)].kind = "end_render_pass"

Pending(self) ==
  IF self.command_buffer_builder = None
  THEN << >>
  ELSE Unwrap(self.command_buffer_builder).cmds

\* A call that appends through with_command_builder and returned.
Appended ==
  /\ last_op' \in {"with_command_builder", "begin_rendering"}
  /\ panic' = ""
  /\ BatchWithCommandBuilder \/ BatchBeginRendering

\* C22: every call that appends through with_command_builder leaves a
\* pending builder holding the commands that were pending before it (none
\* when no builder was pending) followed by the one new command;
\* start_next_frame leaves the pending commands as they are; and the batch
\* the next commit_rendering hands over is the pending commands, each once
\* and in append order, followed by end_render_pass.
C22_AppendsAccumulate ==
  [][/\ Appended =>
          /\ vkr'.command_buffer_builder # None
          /\ Len(Pending(vkr')) = Len(Pending(vkr)) + 1
          /\ SubSeq(Pending(vkr'), 1, Len(Pending(vkr))) = Pending(vkr)
          /\ Pending(vkr')[Len(Pending(vkr'))].kind
               \in CallerCmds \cup {"begin_render_pass"}
     /\ (StartCalled /\ panic' = "") => Pending(vkr') = Pending(vkr)
     /\ CommitReturned =>
          /\ flushed' # None
          /\ Unwrap(flushed').cmds
               = Append(Pending(vkr), Cmd("end_render_pass", None))]_vars

\* A copy, begin_rendering and a draw were appended by three calls and the
\* commit handed them over in that order.
C22_Witness ==
  /\ last_op = "commit_rendering"
  /\ panic = ""
  /\ flushed # None
  /\ Len(Unwrap(flushed).cmds) = 4
  /\ Unwrap(flushed).cmds[1].kind = "copy_buffer"
  /\ Unwrap(flushed).cmds[2].kind = "begin_render_pass"
  /\ Unwrap(flushed).cmds[3].kind = "draw"
  /\ Unwrap(flushed).cmds[4].kind = "end_render_pass"

\* ---- C23
\* C23: a commit_rendering call that returned leaves no pending builder; a
\* commit_rendering call that finds no pending builder panics and hands
\* nothing over, so no batch is handed over twice; and the first call
\* after it that goes through with_command_builder starts from a new
\* builder, which holds that call's command only (none after the identity
\* call of start_next_frame).
C23_BatchIsSingleUse ==
  [][/\ CommitReturned => vkr'.command_buffer_builder = None
     /\ (vkr.command_buffer_builder = None /\ CommitCalled) =>
          /\ panic' = "Could not take command_buffer - maybe 'begin_rendering' was not called."
          /\ flushed' = None
     /\ (vkr.command_buffer_builder = None /\ Appended) =>
          Len(Pending(vkr')) = 1
     /\ (vkr.command_buffer_builder = None /\ StartCalled) =>
          Pending(vkr') = << >>]_vars

\* After a committed frame, a copy was appended: the pending builder holds
\* the copy and nothing of the batch handed over before.
C23_Witness ==
  /\ acquired > 0
  /\ in_flight # {}
  /\ last_op = "with_command_builder"
  /\ panic = ""
  /\ vkr.image_num = None
  /\ Pending(vkr) = << Cmd("copy_buffer", None) >>

\* ---- C24
\* C24 as claimed: setting recreate_swapchain changes that flag and nothing
\* else of the renderer, and the swapchain is replaced only by a
\* start_next_frame call made while no acquired image slot is stored, that
\* is never between a start_next_frame that returned Some and the
\* commit_rendering of that frame.
C24_RebuildOnlyBetweenFrames ==
  [][/\ (last_op' = "mark_stale" /\ MarkStale) =>
          vkr' = [vkr EXCEPT !.recreate_swapchain = TRUE]
     /\ vkr'.swapchain # vkr.swapchain =>
          /\ StartCalled
          /\ vkr.image_num = None]_vars

Identity(d) == << d.pipeline, d.set, d.binding >>

\* The descriptor sets that were built.
Built == {i \in DOMAIN desc_sets : desc_sets[i].outcome = "ok"}

\* C26 as claimed: no two descriptor sets are ever built for the same
\* pipeline, set index and bound resource, whatever material names
\* PhongPipeline::new is given and whatever desc_set_for_texture calls are
\* made.
C26_BuiltOncePerIdentity ==
  \A i, j \in Built :
    i # j => Identity(desc_sets[i]) # Identity(desc_sets[j])

\* ---- C27
\* C27: a constructor or desc_set_for_texture call in which a descriptor
\* set is refused, at add_buffer / add_sampled_image or at build, panics:
\* the refused set is the last thing the call attempted, no pipeline and no
\* descriptor set is returned, and the pipelines the caller holds are the
\* same ones, referring to the same descriptor sets.  So every descriptor
\* set a held pipeline refers to was built.
PipelineSets(p) ==
  CASE p.kind = "phong" ->
         {p.proj, p.light} \cup {p.materials[name] : name \in DOMAIN p.materials}
    [] OTHER -> {p.proj_desc_set}

C27_MismatchIsFatal ==
  /\ [][(\E i \in DOMAIN desc_sets' :
            i > Len(desc_sets) /\ desc_sets'[i].outcome # "ok") =>
          /\ panic' # ""
          /\ ret' = Ret_Panic
          /\ desc_sets'[Len(desc_sets')].outcome # "ok"
          /\ Len(pipelines') = Len(pipelines)
          /\ \A i \in DOMAIN pipelines :
               PipelineSets(pipelines'[i]) = PipelineSets(pipelines[i])]_vars
  /\ [](\A i \in DOMAIN pipelines :
          \A d \in PipelineSets(pipelines[i]) : d.outcome = "ok")

\* PhongPipeline::new panicked at the set of its first material: two
\* builds were attempted, the first succeeded, no pipeline is held.
C27_Witness ==
  /\ last_op = "PhongPipeline::new"
  /\ panic = "Could not build uniform_desc_set."
  /\ pipelines = << >>
  /\ Len(desc_sets) = 2
  /\ desc_sets[1].outcome = "ok"
  /\ desc_sets[2].set = 1
  /\ desc_sets[2].outcome = "build_err"

\* ---- C29
\* C29 as claimed: whenever a slot is stored, its image-available future
\* was acquired from the current swapchain, its index is the stored
\* image_num, and the framebuffers exist and hold that index; so the slot
\* begin_rendering and commit_rendering find is never one of a swapchain
\* that has been replaced.
C29_SlotBelongsToCurrentChain ==
  (Alive /\ vkr.acquire_future # None) =>
    /\ Unwrap(vkr.acquire_future).gen = vkr.swapchain.gen
    /\ vkr.image_num = Some(Unwrap(vkr.acquire_future).index)
    /\ vkr.framebuffers # None
    /\ Unwrap(vkr.image_num) < Len(Unwrap(vkr.framebuffers))

\* ---- C30
\* C30: a start_next_frame call that built the framebuffers and returned
\* None has left the stale flag set; the flag, once set, is cleared only by
\* a start_next_frame call, and that call returns Some(true) unless it
\* panics; and every start_next_frame call that finds the flag set and
\* returns Some returns Some(true).  So from a rebuild that returned None
\* on, the flag stays set until a call returns Some, and that call returns
\* Some(true).
C30_RebuildNeverUnreported ==
  [][/\ (last_op' = "start_next_frame" /\ ret' = Ret_None
         /\ vkr'.framebuffers # vkr.framebuffers) =>
          vkr'.recreate_swapchain
     /\ (vkr.recreate_swapchain /\ ~vkr'.recreate_swapchain) =>
          /\ StartCalled
          /\ panic' # "" \/ ret' = Ret_Some(TRUE)
     /\ (vkr.recreate_swapchain /\ last_op' = "start_next_frame"
         /\ ret'[1] = "Some") =>
          ret' = Ret_Some(TRUE)]_vars

\* A start_next_frame call recreated the swapchain, built the framebuffers
\* on its images and returned None, the acquisition being out of date; no
\* call has returned Some yet.
C30_Witness ==
  /\ last_op = "start_next_frame"
  /\ ret = Ret_None
  /\ panic = ""
  /\ vkr.swapchain.gen = 1
  /\ vkr.framebuffers = Some(NewFramebuffers(vkr))
  /\ vkr.recreate_swapchain
  /\ acquired = 0

\* ---- C31
\* C31: an image is acquired only by a start_next_frame call that leaves
\* the stale flag clear, and when the call found the flag set the image is
\* one of the swapchain it has just recreated; an acquisition that fails
\* for good is attempted under the same condition; the flag, once set, is
\* cleared only by a start_next_frame call that replaced the swapchain and
\* its images; and a start_next_frame call that finds the flag set and does
\* not replace the swapchain acquires nothing and leaves the flag set.
C31_NoAcquisitionWhileStale ==
  [][/\ acquired' # acquired =>
          /\ last_op' = "start_next_frame"
          /\ ~vkr'.recreate_swapchain
          /\ Unwrap(vkr'.acquire_future).gen = vkr'.swapchain.gen
          /\ vkr.recreate_swapchain =>
               vkr'.swapchain.gen = vkr.swapchain.gen + 1
     /\ (panic' = "acquire_next_image failed" /\ vkr.recreate_swapchain) =>
          vkr'.swapchain.gen = vkr.swapchain.gen + 1
     /\ (vkr.recreate_swapchain /\ ~vkr'.recreate_swapchain) =>
          /\ last_op' = "start_next_frame"
          /\ vkr'.swapchain.gen = vkr.swapchain.gen + 1
          /\ vkr'.images = NewImages(vkr'.swapchain.gen)
     /\ (vkr.recreate_swapchain /\ vkr'.swapchain = vkr.swapchain
         /\ last_op' = "start_next_frame" /\ panic' = "") =>
          /\ acquired' = acquired
          /\ ret' = Ret_None
          /\ vkr'.recreate_swapchain
          /\ vkr'.acquire_future = vkr.acquire_future]_vars

\* The stale flag was set after the first acquisition, and a later
\* start_next_frame recreated the swapchain, built the framebuffers and
\* acquired an image of the new swapchain.
C31_Witness ==
  /\ last_op = "start_next_frame"
  /\ ret = Ret_Some(TRUE)
  /\ acquired = 2
  /\ vkr.swapchain.gen = 1
  /\ Unwrap(vkr.acquire_future).gen = 1
  /\ ~vkr.recreate_swapchain

\* ---- C32
\* C32 as claimed: a start_next_frame call whose recreation is refused for
\* unsupported dimensions (it finds the stale flag set, returns and leaves
\* the swapchain in place) leaves swapchain, images and framebuffers as
\* they were, and the recorded dimensions and the viewport of dynamic_state
\* as they were and equal to the dimensions of the swapchain.
C32_RefusedRebuildChangesNothing ==
  [][(vkr.recreate_swapchain /\ vkr'.swapchain = vkr.swapchain
      /\ panic' = "" /\ StartCalled) =>
       /\ vkr'.images = vkr.images
       /\ vkr'.framebuffers = vkr.framebuffers
       /\ vkr'.dimensions = vkr.dimensions
       /\ vkr'.dynamic_state = vkr.dynamic_state
       /\ vkr'.dimensions = vkr'.swapchain.dims
       /\ vkr'.dynamic_state = vkr'.swapchain.dims]_vars

\* ---- C33
\* C33: a start_next_frame call that returns leaves a pending builder as
\* it found it, whatever it returns; when none is pending it creates an
\* empty one if it returns Some and none if it returns None.  A command
\* appended while no slot is stored is added behind the pending ones and
\* stores no slot.  The batch a commit_rendering hands over begins with
\* the commands that were pending, those appended before the frame's
\* start_next_frame first.
C33_StartKeepsPendingCommands ==
  [][/\ (panic' = "" /\ last_op' = "start_next_frame") =>
          /\ vkr.command_buffer_builder # None =>
               vkr'.command_buffer_builder = vkr.command_buffer_builder
          /\ (vkr.command_buffer_builder = None /\ ret' = Ret_None) =>
               vkr'.command_buffer_builder = None
          /\ (vkr.command_buffer_builder = None /\ ret'[1] = "Some") =>
               vkr'.command_buffer_builder = Some(NewBuilder)
     /\ (vkr.image_num = None /\ panic' = ""
         /\ last_op' \in {"with_command_builder", "begin_rendering"}) =>
          /\ last_op' = "with_command_builder"
          /\ vkr'.image_num = None
          /\ SubSeq(Pending(vkr'), 1, Len(Pending(vkr))) = Pending(vkr)
          /\ Len(Pending(vkr')) = Len(Pending(vkr)) + 1
     /\ CommitReturned =>
          /\ Len(Unwrap(flushed').cmds) = Len(Pending(vkr)) + 1
          /\ SubSeq(Unwrap(flushed').cmds, 1, Len(Pending(vkr))) = Pending(vkr)]_vars

\* A copy was appended before any image was acquired, and a
\* start_next_frame that returned None has left it pending.
C33_Witness ==
  /\ last_op = "start_next_frame"
  /\ ret = Ret_None
  /\ panic = ""
  /\ acquired = 0
  /\ Pending(vkr) = << Cmd("copy_buffer", None) >>

\* ---- C34
\* The loop of the example: start_next_frame, and when it returns Some, a
\* copy of the projection if the framebuffers were resized, begin_rendering,
\* the draws (one material or none) and commit_rendering; the position in
\* the loop body is read off the last call.  Of the failures only those the
\* renderer answers by skipping the frame are drawn (out-of-date,
\* unsupported dimensions, a failed flush), and one that leaves the stale
\* flag set is drawn only while the bounds leave room for the recreation
\* and the acquisition that answer it.
Recoverable ==
  vkr'.recreate_swapchain =>
    (vkr'.swapchain.gen < MaxGen /\ acquired' < MaxAcquires)

LoopStartNextFrame ==
  /\ last_op \in {"new", "commit_rendering"} \/ ret = Ret_None
  /\ StartNextFrame
  /\ panic' = ""
  /\ Recoverable

LoopCopyProjection ==
  /\ last_op = "start_next_frame"
  /\ ret = Ret_Some(TRUE)
  /\ BatchWithCommandBuilder
  /\ panic' = ""
  /\ Pending(vkr')[Len(Pending(vkr'))].kind = "copy_buffer"

LoopBeginRendering ==
  /\ \/ last_op = "start_next_frame" /\ ret = Ret_Some(FALSE)
     \/ last_op = "with_command_builder" /\ ~RenderPassOpen(vkr)
  /\ BatchBeginRendering
  /\ panic' = ""

LoopDraw ==
  /\ last_op = "begin_rendering"
  /\ BatchWithCommandBuilder
  /\ panic' = ""
  /\ Pending(vkr')[Len(Pending(vkr'))].kind = "draw"

LoopCommitRendering ==
  /\ \/ last_op = "begin_rendering"
     \/ last_op = "with_command_builder" /\ RenderPassOpen(vkr)
  /\ CommitRendering
  /\ panic' = ""
  /\ Recoverable

\* A start_next_frame of the loop in which recreation and acquisition
\* succeed.
LoopStartSucceeds == LoopStartNextFrame /\ ret'[1] = "Some"

NextLoop ==
  \/ LoopStartNextFrame
  \/ LoopCopyProjection
  \/ LoopBeginRendering
  \/ LoopDraw
  \/ LoopCommitRendering

\* The loop keeps calling, and recreation and acquisition do not fail
\* forever.
SpecLoop ==
  Init /\ [][NextLoop]_vars /\ WF_vars(NextLoop) /\ WF_vars(LoopStartSucceeds)

\* C34: in the loop, whatever failures came before, every frame the bounds
\* leave room for is started and committed: from a state with k images
\* acquired, a commit_rendering of the frame of image k + 1 eventually
\* returns; and a stale flag that is set is eventually cleared.
C34_LoopNeverWedges ==
  /\ \A k \in 0..(MaxAcquires - 1) :
       (acquired = k) ~>
         (acquired = k + 1 /\ last_op = "commit_rendering" /\ panic = "")
  /\ vkr.recreate_swapchain ~> ~vkr.recreate_swapchain

\* The first acquisition was out of date, the swapchain was recreated, and
\* the first frame has been committed.
C34_Witness ==
  /\ last_op = "commit_rendering"
  /\ panic = ""
  /\ acquired = 1
  /\ vkr.swapchain.gen = 1
  /\ ~vkr.recreate_swapchain

\* ---- C35
\* The buffer holds the deltas of the most recent min(n, BufferLen) of the
\* n next_frame calls, the k-th call's delta in slot (k - 1) % BufferLen,
\* and the slots never written hold 0.
FpsBufferRecent ==
  LET n == Len(fps_deltas)
  IN  /\ fps.index = n % BufferLen
      /\ \A k \in 1..n :
           k > n - BufferLen => fps.buffer[((k - 1) % BufferLen) + 1] = fps_deltas[k]
      /\ \A i \in 1..BufferLen : i > n => fps.buffer[i] = 0

\* C35 as claimed: after any sequence of next_frame calls the index is
\* within the buffer, the buffer holds the deltas of the most recent
\* min(n, BufferLen) calls, and last_delta() returns the delta the most
\* recent next_frame call recorded and returned.
C35_LastDeltaIsMostRecent ==
  /\ fps.index \in 0..(BufferLen - 1)
  /\ FpsBufferRecent
  /\ Len(fps_deltas) > 0 =>
       /\ last_delta(fps) = fps_deltas[Len(fps_deltas)]
       /\ last_op = "last_delta" => ret = << "last_delta", fps_deltas[Len(fps_deltas)] >>

====
